---------------------------- MODULE Spec2Model ----------------------------
(***************************************************************************)
(* Badge-lifecycle transaction builder (backend/src/services/              *)
(* identityService.ts): mintBadge and its helpers, the two process-wide    *)
(* lazily initialised promises, and the ledger the transactions go to.     *)
(*                                                                         *)
(* Strings are sequences of one-character strings.  Every await of the     *)
(* source is a point where a call yields; the code between two awaits      *)
(* runs to completion and is one action.                                   *)
(***************************************************************************)
EXTENDS Integers, Sequences, FiniteSets, TLC

(***************************************************************************)
(* Bounds of the model.                                                    *)
(***************************************************************************)
\* mintBadge calls started in one behaviour
MaxStarted == 2
\* highest in-range level the callers ask for
MaxLevel == 1
\* mintBadge calls made one after the other in one behaviour
MaxSequential == 4

(***************************************************************************)
(* Program constants.                                                      *)
(***************************************************************************)
\* requireHexBytes(ownerVkhHex, 28, ...)
OwnerBytes == 28
\* level > 255 is rejected
MaxLevelByte == 255
\* lovelace locked with the badge
ReserveLovelace == 2000000

(***************************************************************************)
(* Strings.                                                                *)
(***************************************************************************)
RECURSIVE Rep(_, _)
Rep(s, n) == IF n = 0 THEN <<>> ELSE s \o Rep(s, n - 1)

HexDigits == <<"0","1","2","3","4","5","6","7","8","9","a","b","c","d","e","f">>

LowerHexChars == {HexDigits[i] : i \in 1..16}

UpperHexChars == {"A","B","C","D","E","F"}

\* String.prototype.toLowerCase on the characters the model uses
toLowerCase(c) ==
  CASE c = "A" -> "a" [] c = "B" -> "b" [] c = "C" -> "c"
    [] c = "D" -> "d" [] c = "E" -> "e" [] c = "F" -> "f"
    [] c = "X" -> "x" [] OTHER -> c

RECURSIVE trimStart(_)
trimStart(s) == IF s # <<>> /\ Head(s) = " " THEN trimStart(Tail(s)) ELSE s

RECURSIVE trimEnd(_)
trimEnd(s) ==
  IF s # <<>> /\ s[Len(s)] = " " THEN trimEnd(SubSeq(s, 1, Len(s) - 1)) ELSE s

trim(s) == trimEnd(trimStart(s))

\* replace(/^0x/i, "")
strip0x(s) ==
  IF Len(s) >= 2 /\ s[1] = "0" /\ s[2] \in {"x", "X"}
  THEN SubSeq(s, 3, Len(s))
  ELSE s

normalizeHex(input) ==
  LET t == strip0x(trim(input)) IN [i \in 1..Len(t) |-> toLowerCase(t[i])]

\* /^[0-9a-f]+$/i
isHex(input) ==
  /\ Len(input) >= 1
  /\ \A i \in 1..Len(input) : input[i] \in LowerHexChars \cup UpperHexChars

\* new Error(...): its class (section 7 taxonomy), its message, and the number and
\* the text the message interpolates
Error(kind, msg, num, text) == [kind |-> kind, msg |-> msg, num |-> num, text |-> text]

\* a thrown Error is [ok |-> FALSE, err |-> e]; a returned value [ok |-> TRUE, val |-> v]
Throw(e) == [ok |-> FALSE, err |-> e]

Return(v) == [ok |-> TRUE, val |-> v]

requireHexBytes(input, expectedLengthBytes, name) ==
  LET cleaned == normalizeHex(input) IN
  IF ~isHex(cleaned) \/ Len(cleaned) # expectedLengthBytes * 2
  THEN Throw(Error("validation", name \o " must be bytes hex", expectedLengthBytes, input))
  ELSE Return(cleaned)

\* levelHex without padStart
levelHexUnpadded(level) ==
  IF level < 16
  THEN <<HexDigits[level + 1]>>
  ELSE <<HexDigits[(level \div 16) + 1], HexDigits[(level % 16) + 1]>>

\* level.toString(16).padStart(2, "0") for 0 <= level <= 255
levelHex(level) ==
  IF level < 16
  THEN <<"0", HexDigits[level + 1]>>
  ELSE <<HexDigits[(level \div 16) + 1], HexDigits[(level % 16) + 1]>>

makeBadgeAssetName(ownerVkhHex, level) ==
  LET cleaned == requireHexBytes(ownerVkhHex, OwnerBytes, "ownerVkhHex") IN
  IF ~cleaned.ok THEN cleaned
  ELSE IF level < 0 \/ level > MaxLevelByte
  THEN Throw(Error("validation", "level must fit in 1 byte (0..255)", level, <<>>))
  ELSE Return(<<"5", "9">> \o levelHex(level) \o cleaned.val)

(***************************************************************************)
(* Datum and redeemer encoders.  A Constr field is a byte string (given    *)
(* as hex) or an integer (BigInt); Data.to serialises the constructor      *)
(* index, the field count and the fields in order.                         *)
(***************************************************************************)
Bytes(hex) == [t |-> "bytes", hex |-> hex, int |-> 0]

BigInt(n) == [t |-> "int", hex |-> <<>>, int |-> n]

Constr(index, fields) == [index |-> index, fields |-> fields]

RECURSIVE DataSeq(_)
DataSeq(fields) ==
  IF fields = <<>> THEN <<>>
  ELSE LET f == Head(fields) IN
       (IF f.t = "bytes" THEN <<"b", Len(f.hex)>> \o f.hex ELSE <<"i", f.int>>)
         \o DataSeq(Tail(fields))

DataTo(c) == <<"constr", c.index, Len(c.fields)>> \o DataSeq(c.fields)

encodeBadgeDatum(ownerKeyHashHex, level, policyId) ==
  DataTo(Constr(0, <<Bytes(ownerKeyHashHex), BigInt(level), Bytes(policyId)>>))

\* args.level, args.fromLevel, args.toLevel: a sequence of zero or one number each
\* (undefined is the empty sequence)
Undefined == <<>>

Args(level, fromLevel, toLevel) ==
  [level |-> level, fromLevel |-> fromLevel, toLevel |-> toLevel]

\* encodeBadgeMintRedeemer with the two levels of the Upgrade variant in the
\* other order
encodeBadgeMintRedeemerSwapped(action, ownerKeyHashHex, args) ==
  IF action = "Init" THEN
    IF args.level = Undefined
    THEN Throw(Error("validation", "Missing level for Init redeemer", 0, <<>>))
    ELSE Return(DataTo(Constr(0, <<Bytes(ownerKeyHashHex), BigInt(args.level[1])>>)))
  ELSE IF action = "Upgrade" THEN
    IF args.fromLevel = Undefined \/ args.toLevel = Undefined
    THEN Throw(Error("validation", "Missing fromLevel/toLevel for Upgrade redeemer", 0, <<>>))
    ELSE Return(DataTo(Constr(1, <<Bytes(ownerKeyHashHex), BigInt(args.toLevel[1]),
                                   BigInt(args.fromLevel[1])>>)))
  ELSE
    IF args.level = Undefined
    THEN Throw(Error("validation", "Missing level for Retire redeemer", 0, <<>>))
    ELSE Return(DataTo(Constr(2, <<Bytes(ownerKeyHashHex), BigInt(args.level[1])>>)))

encodeBadgeMintRedeemer(action, ownerKeyHashHex, args) ==
  IF action = "Init" THEN
    IF args.level = Undefined
    THEN Throw(Error("validation", "Missing level for Init redeemer", 0, <<>>))
    ELSE Return(DataTo(Constr(0, <<Bytes(ownerKeyHashHex), BigInt(args.level[1])>>)))
  ELSE IF action = "Upgrade" THEN
    IF args.fromLevel = Undefined \/ args.toLevel = Undefined
    THEN Throw(Error("validation", "Missing fromLevel/toLevel for Upgrade redeemer", 0, <<>>))
    ELSE Return(DataTo(Constr(1, <<Bytes(ownerKeyHashHex), BigInt(args.fromLevel[1]),
                                   BigInt(args.toLevel[1])>>)))
  ELSE
    IF args.level = Undefined
    THEN Throw(Error("validation", "Missing level for Retire redeemer", 0, <<>>))
    ELSE Return(DataTo(Constr(2, <<Bytes(ownerKeyHashHex), BigInt(args.level[1])>>)))

\* encodeBadgeHolderRedeemer with the constructor indexes of the two variants
\* exchanged
encodeBadgeHolderRedeemerSwapped(action, newLevel) ==
  IF action = "Upgrade" THEN
    IF newLevel = Undefined
    THEN Throw(Error("validation", "Missing newLevel for badge-holder Upgrade", 0, <<>>))
    ELSE Return(DataTo(Constr(1, <<BigInt(newLevel[1])>>)))
  ELSE Return(DataTo(Constr(0, <<>>)))

encodeBadgeHolderRedeemer(action, newLevel) ==
  IF action = "Upgrade" THEN
    IF newLevel = Undefined
    THEN Throw(Error("validation", "Missing newLevel for badge-holder Upgrade", 0, <<>>))
    ELSE Return(DataTo(Constr(0, <<BigInt(newLevel[1])>>)))
  ELSE Return(DataTo(Constr(1, <<>>)))

(***************************************************************************)
(* The contract bundle (cardano-contract/plutus.json) and the scripts.     *)
(***************************************************************************)
MintTitle == <<"badge_mint.badge_mint.mint">>

HolderTitle == <<"badge_holder.badge_holder.spend">>

\* compiledCode of the two validators (hex)
MintCode == <<"4", "d">>

HolderCode == <<"4", "8">>

Validator(title, compiledCode) == [title |-> title, compiledCode |-> compiledCode]

Bundle(readable, plutusVersion, validators) ==
  [readable |-> readable, plutusVersion |-> plutusVersion, validators |-> validators]

\* the bundle files a process may find on disk: a good one, one of another
\* language version with and without its validators, one without the holder
\* entry, one whose mint entry has no compiled code, and one that cannot be read
\* or parsed
BundleFiles ==
  { Bundle(TRUE, "v3", <<Validator(MintTitle, MintCode), Validator(HolderTitle, HolderCode)>>),
    Bundle(TRUE, "v2", <<Validator(MintTitle, MintCode), Validator(HolderTitle, HolderCode)>>),
    Bundle(TRUE, "v2", <<>>),
    Bundle(TRUE, "v3", <<Validator(MintTitle, MintCode)>>),
    Bundle(TRUE, "v3", <<Validator(MintTitle, <<>>), Validator(HolderTitle, HolderCode)>>),
    Bundle(FALSE, "undefined", <<>>) }

\* blueprint.validators?.find((v) => v?.title === title), then !found?.compiledCode
findScript(blueprint, title) ==
  LET hits == {i \in 1..Len(blueprint.validators) : blueprint.validators[i].title = title} IN
  IF hits = {} THEN Throw(Error("resolution", "Compiled script not found", 0, title))
  ELSE LET found == blueprint.validators[CHOOSE i \in hits : \A j \in hits : i <= j] IN
       IF found.compiledCode = <<>>
       THEN Throw(Error("resolution", "Compiled script not found", 0, title))
       ELSE Return([type |-> "PlutusV3", script |-> found.compiledCode])

\* the script hash of each compiled code, 28 bytes of hex
ScriptHashes == [code \in {MintCode, HolderCode} |-> Rep(code, OwnerBytes)]

mintingPolicyToId(script) == ScriptHashes[script.script]

toUnit(policyId, assetNameHex) == policyId \o assetNameHex

validatorToAddress(validator) == <<"a", "d", "d", "r", "_">> \o validator.script

(***************************************************************************)
(* The custodial key and the owner hints callers send.                     *)
(***************************************************************************)
\* publicKey.hash() of CARDANO_SIGNING_KEY, 28 bytes of lowercase hex
BackendKeyHash == Rep(<<"a", "1">>, OwnerBytes)

OtherKeyHash == Rep(<<"b", "2">>, OwnerBytes)

\* ownerVkhHex: absent, the backend's own hash (also prefixed and in upper
\* case), another well-formed hash, and a malformed one
NoHint == <<>>

OwnerHints ==
  { NoHint,
    BackendKeyHash,
    <<"0", "X">> \o Rep(<<"A", "1">>, OwnerBytes),
    OtherKeyHash,
    <<"z", "z">> }


(***************************************************************************)
(* State.                                                                  *)
(***************************************************************************)
VARIABLES
  env,               \* BLOCKFROST_PROJECT_ID and CARDANO_SIGNING_KEY: configured or not
  bundleFile,        \* the bundle file on disk
  providerUp,        \* whether Lucid(provider, network) can reach the provider
  genesis,           \* the holder-script outputs that were live when the process started
  blueprintPromise,  \* "null", "pending", "fulfilled" or "rejected"
  lucidPromise,      \* "null", "pending", "fulfilled" or "rejected"
  bundleReads,       \* fs.readFile calls on the bundle
  lucidBuilds,       \* Lucid(provider, network) constructions
  utxos,             \* the live outputs at the holder-script address
  accepted,          \* the transactions the ledger accepted
  started,           \* mintBadge calls started so far
  log,               \* logger.warn records
  calls              \* the mintBadge calls, by slot

vars == <<env, bundleFile, providerUp, genesis, blueprintPromise, lucidPromise,
          bundleReads, lucidBuilds, utxos, accepted, started, log, calls>>

\* the slots of the mintBadge calls in flight: two callers at a time
CallIds == {1, 2}

\* the process and its environment, unchanged by a call's own steps
config == <<env, bundleFile, providerUp, genesis>>

None == <<>>

Some(v) == <<v>>

IdleCall ==
  [pc |-> "idle", ownerVkhHex |-> NoHint, level |-> 0, action |-> "Init",
   reads |-> 0, connects |-> 0, lookups |-> 0, query |-> None, target |-> None,
   tx |-> None, builds |-> 0,
   signs |-> 0, submits |-> 0, result |-> None, error |-> None]

Lovelace == <<"l", "o", "v", "e", "l", "a", "c", "e">>

\* a holder-script output: the transaction that made it, what it locks and its datum
Utxo(ref, unit, datum) ==
  [ref |-> ref, assets |-> {<<Lovelace, ReserveLovelace>>, <<unit, 1>>}, datum |-> datum]

HasUnit(u, unit) == \E a \in u.assets : a[1] = unit /\ a[2] >= 1

(***************************************************************************)
(* Locals of mintBadge, as functions of the call's inputs.                 *)
(***************************************************************************)
getBackendPaymentKeyHashHex ==
  IF env.CARDANO_SIGNING_KEY
  THEN Return(BackendKeyHash)
  ELSE Throw(Error("config", "PrivateKey.from_bech32 of a missing CARDANO_SIGNING_KEY", 0, <<>>))

\* ownerKeyHashHex taking a well-formed owner hint as the owner
ownerKeyHashHexTrustsHint(ownerVkhHex) ==
  IF ownerVkhHex # NoHint /\ requireHexBytes(ownerVkhHex, OwnerBytes, "ownerVkhHex").ok
  THEN requireHexBytes(ownerVkhHex, OwnerBytes, "ownerVkhHex").val
  ELSE getBackendPaymentKeyHashHex.val

\* the owner of the badge a call acts on: the backend key's hash, whatever owner
\* hint the caller sent
ownerKeyHashHex(ownerVkhHex) == getBackendPaymentKeyHashHex.val

badgeMintPolicy == findScript(bundleFile, MintTitle)

\* badgeHolderValidator taken for granted, not looked up in the bundle
badgeHolderValidatorAssumed == Return([type |-> "PlutusV3", script |-> HolderCode])

badgeHolderValidator == findScript(bundleFile, HolderTitle)

policyId == mintingPolicyToId(badgeMintPolicy.val)

badgeHolderAddress == validatorToAddress(badgeHolderValidator.val)

unitOf(owner, level) == toUnit(policyId, makeBadgeAssetName(owner, level).val)

(***************************************************************************)
(* The transaction intents (lucid.newTx() ... .complete()).                *)
(***************************************************************************)
newTx ==
  [attach |-> {}, signers |-> {}, collect |-> {}, spendRedeemer |-> None,
   mint |-> {}, mintRedeemer |-> None, pay |-> <<>>]

attachMintingPolicy(tx, script) ==
  [tx EXCEPT !.attach = @ \cup {[kind |-> "MintingPolicy", script |-> script]}]

attachSpendingValidator(tx, script) ==
  [tx EXCEPT !.attach = @ \cup {[kind |-> "SpendingValidator", script |-> script]}]

addSignerKey(tx, keyHash) == [tx EXCEPT !.signers = @ \cup {keyHash}]

collectFrom(tx, outs, redeemer) ==
  [tx EXCEPT !.collect = @ \cup outs, !.spendRedeemer = Some(redeemer)]

\* mintAssets keeping only the quantities above zero
mintAssetsMintOnly(tx, assets, redeemer) ==
  [tx EXCEPT !.mint = @ \cup {a \in assets : a[2] > 0}, !.mintRedeemer = Some(redeemer)]

mintAssets(tx, assets, redeemer) ==
  [tx EXCEPT !.mint = @ \cup assets, !.mintRedeemer = Some(redeemer)]

\* payToContract locking the lovelace and leaving the token out
payToContractReserveOnly(tx, address, datum, assets) ==
  [tx EXCEPT !.pay = Append(@, [address |-> address, datum |-> datum,
                                assets |-> {a \in assets : a[1] = Lovelace}])]

payToContract(tx, address, datum, assets) ==
  [tx EXCEPT !.pay = Append(@, [address |-> address, datum |-> datum, assets |-> assets])]

\* the Init branch: the redeemer, then the builder chain
InitTx(owner, level) ==
  LET mintRedeemer ==
        encodeBadgeMintRedeemer("Init", owner, Args(Some(level), Undefined, Undefined))
      unit == unitOf(owner, level)
      inlineDatum == encodeBadgeDatum(owner, level, policyId)
  IN IF ~mintRedeemer.ok THEN mintRedeemer
     ELSE Return(
       payToContract(
         mintAssets(
           addSignerKey(attachMintingPolicy(newTx, badgeMintPolicy.val), owner),
           {<<unit, 1>>}, mintRedeemer.val),
         badgeHolderAddress, inlineDatum, {<<Lovelace, ReserveLovelace>>, <<unit, 1>>}))

\* the Upgrade branch after the lookup: the redeemers, the datum, the builder chain
UpgradeTx(owner, level, targetUtxo) ==
  LET fromLevel == level - 1
      toLevel == level
      fromUnit == unitOf(owner, fromLevel)
      toUnitValue == unitOf(owner, toLevel)
      mintRedeemer ==
        encodeBadgeMintRedeemer("Upgrade", owner,
                                Args(Undefined, Some(fromLevel), Some(toLevel)))
      spendRedeemer == encodeBadgeHolderRedeemer("Upgrade", Some(toLevel))
      inlineDatum == encodeBadgeDatum(owner, toLevel, policyId)
  IN IF ~mintRedeemer.ok THEN mintRedeemer
     ELSE IF ~spendRedeemer.ok THEN spendRedeemer
     ELSE Return(
       payToContract(
         mintAssets(
           collectFrom(
             addSignerKey(
               attachSpendingValidator(
                 attachMintingPolicy(newTx, badgeMintPolicy.val),
                 badgeHolderValidator.val),
               owner),
             {targetUtxo}, spendRedeemer.val),
           {<<fromUnit, -1>>, <<toUnitValue, 1>>}, mintRedeemer.val),
         badgeHolderAddress, inlineDatum,
         {<<Lovelace, ReserveLovelace>>, <<toUnitValue, 1>>}))

\* the Retire branch after the lookup
RetireTx(owner, level, targetUtxo) ==
  LET unitRetire == unitOf(owner, level)
      mintRedeemer ==
        encodeBadgeMintRedeemer("Retire", owner, Args(Some(level), Undefined, Undefined))
      spendRedeemer == encodeBadgeHolderRedeemer("Retire", Undefined)
  IN IF ~mintRedeemer.ok THEN mintRedeemer
     ELSE IF ~spendRedeemer.ok THEN spendRedeemer
     ELSE Return(
       mintAssets(
         collectFrom(
           addSignerKey(
             attachSpendingValidator(
               attachMintingPolicy(newTx, badgeMintPolicy.val),
               badgeHolderValidator.val),
             owner),
           {targetUtxo}, spendRedeemer.val),
         {<<unitRetire, -1>>}, mintRedeemer.val))

(***************************************************************************)
(* The lazily initialised process-wide promises.                           *)
(***************************************************************************)
assertBlockchainEnv ==
  IF ~env.BLOCKFROST_PROJECT_ID
  THEN Throw(Error("config", "BLOCKFROST_PROJECT_ID is not configured", 0, <<>>))
  ELSE IF ~env.CARDANO_SIGNING_KEY
  THEN Throw(Error("config", "CARDANO_SIGNING_KEY is not configured", 0, <<>>))
  ELSE Return(TRUE)

\* loadBlueprint starting a read on every call
loadBlueprintUncached == [promise |-> "pending", reads |-> bundleReads + 1]

\* loadBlueprint up to its return: the promise it leaves in blueprintPromise and
\* the reads of the bundle file it has started
loadBlueprint ==
  IF blueprintPromise = "null"
  THEN [promise |-> "pending", reads |-> bundleReads + 1]
  ELSE [promise |-> blueprintPromise, reads |-> bundleReads]

\* getLucid starting a new construction when the stored promise was rejected
getLucidRetries ==
  IF lucidPromise \in {"null", "rejected"}
  THEN IF ~assertBlockchainEnv.ok THEN assertBlockchainEnv
       ELSE Return([promise |-> "pending", builds |-> lucidBuilds + 1])
  ELSE Return([promise |-> lucidPromise, builds |-> lucidBuilds])

\* getLucid up to its return: a throw of assertBlockchainEnv, or the promise it
\* leaves in lucidPromise and the constructions it has started
getLucid ==
  IF lucidPromise = "null"
  THEN IF ~assertBlockchainEnv.ok THEN assertBlockchainEnv
       ELSE Return([promise |-> "pending", builds |-> lucidBuilds + 1])
  ELSE Return([promise |-> lucidPromise, builds |-> lucidBuilds])

\* the bundle read settles: fs.readFile and JSON.parse succeed or throw
BlueprintSettle ==
  /\ blueprintPromise = "pending"
  /\ blueprintPromise' = IF bundleFile.readable THEN "fulfilled" ELSE "rejected"
  /\ UNCHANGED <<config, lucidPromise, bundleReads, lucidBuilds, utxos, accepted,
                 started, log, calls>>

\* the client construction settles: Lucid(provider, network) resolves or rejects
LucidSettle ==
  /\ lucidPromise = "pending"
  /\ lucidPromise' = IF providerUp THEN "fulfilled" ELSE "rejected"
  /\ UNCHANGED <<config, blueprintPromise, bundleReads, lucidBuilds, utxos, accepted,
                 started, log, calls>>

(***************************************************************************)
(* mintBadge, one action per stretch of code between two awaits.           *)
(***************************************************************************)
\* the call ends with the error thrown (the promise mintBadge returned rejects)
Failed(c, err) == [c EXCEPT !.pc = "done", !.error = Some(err)]

\* the call has ended with an error of this kind
FailedAt(c, kind) == c.error # None /\ c.error[1].kind = kind

\* the call ends with the object returned, which the transaction hash determines
Succeeded(c, txHash) == [c EXCEPT !.pc = "done", !.result = Some(txHash)]

\* HintWarnings with the catch around requireHexBytes logging nothing
HintWarningsMismatchOnly(ownerVkhHex) ==
  IF ownerVkhHex = NoHint THEN {}
  ELSE LET requested == requireHexBytes(ownerVkhHex, OwnerBytes, "ownerVkhHex") IN
       IF requested.ok /\ requested.val # getBackendPaymentKeyHashHex.val
       THEN {[msg |-> "Ignoring provided ownerVkhHex; using server signing key",
              ownerVkhHex |-> requested.val]}
       ELSE {}

\* the warning the owner-hint check logs, if any
HintWarnings(ownerVkhHex) ==
  IF ownerVkhHex = NoHint THEN {}
  ELSE LET requested == requireHexBytes(ownerVkhHex, OwnerBytes, "ownerVkhHex") IN
       IF ~requested.ok
       THEN {[msg |-> "Invalid ownerVkhHex provided; using server signing key",
              ownerVkhHex |-> ownerVkhHex]}
       ELSE IF requested.val # getBackendPaymentKeyHashHex.val
       THEN {[msg |-> "Ignoring provided ownerVkhHex; using server signing key",
              ownerVkhHex |-> requested.val]}
       ELSE {}

\* mintBadge is called (the call takes the lowest free slot): the owner hash, the
\* owner-hint check, loadBlueprint()
Call(p, ownerVkhHex, level, action) ==
  /\ calls[p].pc = "idle"
  /\ \A q \in CallIds : q < p => calls[q].pc # "idle"
  /\ started' = started + 1
  /\ LET c == [IdleCall EXCEPT !.ownerVkhHex = ownerVkhHex, !.level = level,
                               !.action = action]
     IN IF ~getBackendPaymentKeyHashHex.ok
        THEN /\ calls' = [calls EXCEPT ![p] = Failed(c, getBackendPaymentKeyHashHex.err)]
             /\ UNCHANGED <<log, blueprintPromise, bundleReads>>
        ELSE /\ log' = log \cup HintWarnings(ownerVkhHex)
             /\ blueprintPromise' = loadBlueprint.promise
             /\ bundleReads' = loadBlueprint.reads
             /\ calls' = [calls EXCEPT ![p] =
                   [c EXCEPT !.pc = "awaitBlueprint",
                             !.reads = loadBlueprint.reads - bundleReads]]
  /\ UNCHANGED <<config, lucidPromise, lucidBuilds, utxos, accepted>>

\* a call of the MaxStarted calls that may be in flight together
Enter(p, ownerVkhHex, level, action) ==
  /\ started < MaxStarted
  /\ Call(p, ownerVkhHex, level, action)

\* AfterBlueprint without the version check
AfterBlueprintAnyVersion(p) ==
  LET c == calls[p] IN
  /\ c.pc = "awaitBlueprint"
  /\ blueprintPromise \in {"fulfilled", "rejected"}
  /\ IF blueprintPromise = "rejected"
     THEN /\ calls' = [calls EXCEPT ![p] =
                 Failed(c, Error("resolution", "bundle unreadable", 0, <<>>))]
          /\ UNCHANGED <<lucidPromise, lucidBuilds>>
     ELSE IF ~badgeMintPolicy.ok
     THEN /\ calls' = [calls EXCEPT ![p] = Failed(c, badgeMintPolicy.err)]
          /\ UNCHANGED <<lucidPromise, lucidBuilds>>
     ELSE IF ~badgeHolderValidator.ok
     THEN /\ calls' = [calls EXCEPT ![p] = Failed(c, badgeHolderValidator.err)]
          /\ UNCHANGED <<lucidPromise, lucidBuilds>>
     ELSE IF ~getLucid.ok
     THEN /\ calls' = [calls EXCEPT ![p] = Failed(c, getLucid.err)]
          /\ UNCHANGED <<lucidPromise, lucidBuilds>>
     ELSE /\ lucidPromise' = getLucid.val.promise
          /\ lucidBuilds' = getLucid.val.builds
          /\ calls' = [calls EXCEPT ![p] =
                [c EXCEPT !.pc = "awaitLucid",
                          !.connects = getLucid.val.builds - lucidBuilds]]
  /\ UNCHANGED <<config, blueprintPromise, bundleReads, utxos, accepted, started, log>>

\* await loadBlueprint() returns: the version check, findScript twice, getLucid()
AfterBlueprint(p) ==
  LET c == calls[p] IN
  /\ c.pc = "awaitBlueprint"
  /\ blueprintPromise \in {"fulfilled", "rejected"}
  /\ IF blueprintPromise = "rejected"
     THEN /\ calls' = [calls EXCEPT ![p] =
                 Failed(c, Error("resolution", "bundle unreadable", 0, <<>>))]
          /\ UNCHANGED <<lucidPromise, lucidBuilds>>
     ELSE IF bundleFile.plutusVersion # "v3"
     THEN /\ calls' = [calls EXCEPT ![p] =
                 Failed(c, Error("resolution", "Expected Plutus V3 blueprint", 0,
                                 <<bundleFile.plutusVersion>>))]
          /\ UNCHANGED <<lucidPromise, lucidBuilds>>
     ELSE IF ~badgeMintPolicy.ok
     THEN /\ calls' = [calls EXCEPT ![p] = Failed(c, badgeMintPolicy.err)]
          /\ UNCHANGED <<lucidPromise, lucidBuilds>>
     ELSE IF ~badgeHolderValidator.ok
     THEN /\ calls' = [calls EXCEPT ![p] = Failed(c, badgeHolderValidator.err)]
          /\ UNCHANGED <<lucidPromise, lucidBuilds>>
     ELSE IF ~getLucid.ok
     THEN /\ calls' = [calls EXCEPT ![p] = Failed(c, getLucid.err)]
          /\ UNCHANGED <<lucidPromise, lucidBuilds>>
     ELSE /\ lucidPromise' = getLucid.val.promise
          /\ lucidBuilds' = getLucid.val.builds
          /\ calls' = [calls EXCEPT ![p] =
                [c EXCEPT !.pc = "awaitLucid",
                          !.connects = getLucid.val.builds - lucidBuilds]]
  /\ UNCHANGED <<config, blueprintPromise, bundleReads, utxos, accepted, started, log>>

\* Dispatch with the Upgrade precondition off by one
DispatchOffByOne(c, owner) ==
  IF c.action = "Init"
  THEN LET tx == InitTx(owner, c.level) IN
       IF ~tx.ok THEN Failed(c, tx.err)
       ELSE [c EXCEPT !.pc = "awaitBuild", !.tx = Some(tx.val), !.builds = @ + 1]
  ELSE IF c.action = "Upgrade"
  THEN IF c.level - 1 < 1
       THEN Failed(c, Error("precondition",
                            "Upgrade requires level >= 1 (target new level)", 0, <<>>))
       ELSE [c EXCEPT !.pc = "awaitLookup", !.query = Some(unitOf(owner, c.level - 1)),
                      !.lookups = @ + 1]
  ELSE IF c.action = "Retire"
  THEN [c EXCEPT !.pc = "awaitLookup", !.query = Some(unitOf(owner, c.level)),
                 !.lookups = @ + 1]
  ELSE Failed(c, Error("validation", "Unsupported action", 0, <<c.action>>))

\* Dispatch taking every action that is not Init or Upgrade for Retire
DispatchElseRetire(c, owner) ==
  IF c.action = "Init"
  THEN LET tx == InitTx(owner, c.level) IN
       IF ~tx.ok THEN Failed(c, tx.err)
       ELSE [c EXCEPT !.pc = "awaitBuild", !.tx = Some(tx.val), !.builds = @ + 1]
  ELSE IF c.action = "Upgrade"
  THEN IF c.level - 1 < 0
       THEN Failed(c, Error("precondition",
                            "Upgrade requires level >= 1 (target new level)", 0, <<>>))
       ELSE [c EXCEPT !.pc = "awaitLookup", !.query = Some(unitOf(owner, c.level - 1)),
                      !.lookups = @ + 1]
  ELSE [c EXCEPT !.pc = "awaitLookup", !.query = Some(unitOf(owner, c.level)),
                 !.lookups = @ + 1]

\* the try block up to its first await: the dispatch on the action, then the
\* lookup for Upgrade and Retire (query is the unit asked for) and complete() for
\* Init (tx is the intent composed)
Dispatch(c, owner) ==
  IF c.action = "Init"
  THEN LET tx == InitTx(owner, c.level) IN
       IF ~tx.ok THEN Failed(c, tx.err)
       ELSE [c EXCEPT !.pc = "awaitBuild", !.tx = Some(tx.val), !.builds = @ + 1]
  ELSE IF c.action = "Upgrade"
  THEN IF c.level - 1 < 0
       THEN Failed(c, Error("precondition",
                            "Upgrade requires level >= 1 (target new level)", 0, <<>>))
       ELSE [c EXCEPT !.pc = "awaitLookup", !.query = Some(unitOf(owner, c.level - 1)),
                      !.lookups = @ + 1]
  ELSE IF c.action = "Retire"
  THEN [c EXCEPT !.pc = "awaitLookup", !.query = Some(unitOf(owner, c.level)),
                 !.lookups = @ + 1]
  ELSE Failed(c, Error("validation", "Unsupported action", 0, <<c.action>>))

\* await getLucid() returns: the identifiers, then the try block
AfterLucid(p) ==
  LET c == calls[p]
      owner == ownerKeyHashHex(c.ownerVkhHex)
      assetNameHex == makeBadgeAssetName(owner, c.level)
  IN
  /\ c.pc = "awaitLucid"
  /\ lucidPromise \in {"fulfilled", "rejected"}
  /\ calls' = [calls EXCEPT ![p] =
       IF lucidPromise = "rejected"
       THEN Failed(c, Error("connect", "Lucid(provider, network) rejected", 0, <<>>))
       ELSE IF ~assetNameHex.ok THEN Failed(c, assetNameHex.err)
       ELSE Dispatch(c, owner)]
  /\ UNCHANGED <<config, blueprintPromise, lucidPromise, bundleReads, lucidBuilds,
                 utxos, accepted, started, log>>

\* LookupLevel naming the level asked for, not the level looked up
LookupLevelAsked(c) == c.level

\* the level whose unit the Upgrade and Retire branches look up
LookupLevel(c) == IF c.action = "Upgrade" THEN c.level - 1 ELSE c.level

\* LookupReturn without the test of scriptUtxos[0]: with nothing found the branch
\* goes on and composes its transaction with no input
LookupReturnUnchecked(p, ok, found) ==
  LET c == calls[p]
      owner == ownerKeyHashHex(c.ownerVkhHex)
      scriptUtxos == {u \in utxos : HasUnit(u, c.query[1])}
      targetUtxo == IF found = None THEN Utxo(0, c.query[1], <<>>) ELSE found[1]
  IN
  /\ c.pc = "awaitLookup"
  /\ IF scriptUtxos = {} THEN found = None ELSE found \in {Some(u) : u \in scriptUtxos}
  /\ calls' = [calls EXCEPT ![p] =
       IF ~ok THEN Failed(c, Error("lookup", "utxosAtWithUnit failed", 0, <<>>))
       ELSE LET tx == IF c.action = "Upgrade" THEN UpgradeTx(owner, c.level, targetUtxo)
                                               ELSE RetireTx(owner, c.level, targetUtxo)
            IN IF ~tx.ok THEN Failed(c, tx.err)
               ELSE [c EXCEPT !.pc = "awaitBuild", !.target = found,
                              !.tx = Some([tx.val EXCEPT !.collect =
                                             IF found = None THEN {} ELSE @]),
                              !.builds = @ + 1]]
  /\ UNCHANGED <<config, blueprintPromise, lucidPromise, bundleReads, lucidBuilds,
                 utxos, accepted, started, log>>

\* await lucid.utxosAtWithUnit(...) returns or throws; found is scriptUtxos[0]
LookupReturn(p, ok, found) ==
  LET c == calls[p]
      owner == ownerKeyHashHex(c.ownerVkhHex)
      scriptUtxos == {u \in utxos : HasUnit(u, c.query[1])}
  IN
  /\ c.pc = "awaitLookup"
  /\ IF scriptUtxos = {} THEN found = None ELSE found \in {Some(u) : u \in scriptUtxos}
  /\ calls' = [calls EXCEPT ![p] =
       IF ~ok THEN Failed(c, Error("lookup", "utxosAtWithUnit failed", 0, <<>>))
       ELSE IF found = None
       THEN Failed(c, Error("state", "No badge-holder UTxO found for level",
                            LookupLevel(c), badgeHolderAddress))
       ELSE LET tx == IF c.action = "Upgrade" THEN UpgradeTx(owner, c.level, found[1])
                                               ELSE RetireTx(owner, c.level, found[1])
            IN IF ~tx.ok THEN Failed(c, tx.err)
               ELSE [c EXCEPT !.pc = "awaitBuild", !.target = found, !.tx = Some(tx.val),
                              !.builds = @ + 1]]
  /\ UNCHANGED <<config, blueprintPromise, lucidPromise, bundleReads, lucidBuilds,
                 utxos, accepted, started, log>>

\* await ....complete() returns or throws; then tx.sign.withWallet().complete()
BuildReturn(p, ok) ==
  LET c == calls[p] IN
  /\ c.pc = "awaitBuild"
  /\ calls' = [calls EXCEPT ![p] =
       IF ~ok THEN Failed(c, Error("build", "complete() failed", 0, <<>>))
       ELSE [c EXCEPT !.pc = "awaitSign", !.signs = @ + 1]]
  /\ UNCHANGED <<config, blueprintPromise, lucidPromise, bundleReads, lucidBuilds,
                 utxos, accepted, started, log>>

\* SignReturn with signed.submit() started before the signature is awaited
SignReturnSubmitsEarly(p, ok) ==
  LET c == [calls[p] EXCEPT !.submits = @ + 1] IN
  /\ c.pc = "awaitSign"
  /\ calls' = [calls EXCEPT ![p] =
       IF ~ok THEN Failed(c, Error("sign", "sign.withWallet().complete() failed", 0, <<>>))
       ELSE [c EXCEPT !.pc = "awaitSubmit"]]
  /\ UNCHANGED <<config, blueprintPromise, lucidPromise, bundleReads, lucidBuilds,
                 utxos, accepted, started, log>>

\* await tx.sign.withWallet().complete() returns or throws; then signed.submit()
SignReturn(p, ok) ==
  LET c == calls[p] IN
  /\ c.pc = "awaitSign"
  /\ calls' = [calls EXCEPT ![p] =
       IF ~ok THEN Failed(c, Error("sign", "sign.withWallet().complete() failed", 0, <<>>))
       ELSE [c EXCEPT !.pc = "awaitSubmit", !.submits = @ + 1]]
  /\ UNCHANGED <<config, blueprintPromise, lucidPromise, bundleReads, lucidBuilds,
                 utxos, accepted, started, log>>

(***************************************************************************)
(* The ledger: what signed.submit() does to the holder-script outputs.     *)
(***************************************************************************)
\* the quantity of a unit the outputs in outs hold
RECURSIVE QtyIn(_, _)
QtyIn(outs, unit) ==
  IF outs = {} THEN 0
  ELSE LET u == CHOOSE x \in outs : TRUE
           here == {a \in u.assets : a[1] = unit}
       IN (IF here = {} THEN 0 ELSE (CHOOSE a \in here : TRUE)[2]) + QtyIn(outs \ {u}, unit)

\* every input is unspent, and what is burned is held by the inputs
LedgerAccepts(tx) ==
  /\ tx.collect \subseteq utxos
  /\ \A m \in tx.mint : m[2] < 0 => QtyIn(tx.collect, m[1]) >= -m[2]

\* the hash of the next accepted transaction
NextTxHash == Cardinality(accepted) + 1

\* the outputs a transaction leaves at the holder-script address
HolderOutputs(tx, txHash) ==
  {[ref |-> txHash, assets |-> tx.pay[i].assets, datum |-> tx.pay[i].datum] :
     i \in {j \in 1..Len(tx.pay) : tx.pay[j].address = badgeHolderAddress}}

\* the object a successful call returns
ResultOf(c) ==
  LET txHash == c.result[1]
      owner == ownerKeyHashHex(c.ownerVkhHex)
  IN
  IF c.action = "Init" THEN
    [success |-> TRUE, action |-> c.action, level |-> c.level,
     ownerVkhHex |-> owner,
     assetNameHex |-> makeBadgeAssetName(owner, c.level).val,
     policyId |-> policyId, unit |-> unitOf(owner, c.level),
     badgeHolderAddress |-> badgeHolderAddress, txHash |-> txHash,
     message |-> "Badge minted and locked at badge-holder script"]
  ELSE IF c.action = "Upgrade" THEN
    [success |-> TRUE, action |-> c.action, level |-> c.level,
     ownerVkhHex |-> owner, policyId |-> policyId,
     fromUnit |-> unitOf(owner, c.level - 1), toUnit |-> unitOf(owner, c.level),
     badgeHolderAddress |-> badgeHolderAddress, txHash |-> txHash,
     message |-> "Badge upgraded"]
  ELSE
    [success |-> TRUE, action |-> c.action, level |-> c.level,
     ownerVkhHex |-> owner, policyId |-> policyId,
     unit |-> unitOf(owner, c.level),
     badgeHolderAddress |-> badgeHolderAddress, txHash |-> txHash,
     message |-> "Badge retired (burned)"]

\* SubmitFailed with the error of signed.submit() swallowed
SubmitFailedSwallowed(c) == Succeeded(c, 0)

\* what the call becomes when signed.submit() throws
SubmitFailed(c) == Failed(c, Error("submit", "submit() failed", 0, <<>>))

\* await signed.submit() returns the hash or throws; ok: the provider took the
\* transaction to the ledger and answered
SubmitReturn(p, ok) ==
  LET c == calls[p]
      tx == c.tx[1]
  IN
  /\ c.pc = "awaitSubmit"
  /\ IF ok /\ LedgerAccepts(tx)
     THEN /\ utxos' = (utxos \ tx.collect) \cup HolderOutputs(tx, NextTxHash)
          /\ accepted' = accepted \cup
               {[txHash |-> NextTxHash, inputs |-> {u.ref : u \in tx.collect},
                 mint |-> tx.mint]}
          /\ calls' = [calls EXCEPT ![p] = Succeeded(c, NextTxHash)]
     ELSE /\ calls' = [calls EXCEPT ![p] = SubmitFailed(c)]
          /\ UNCHANGED <<utxos, accepted>>
  /\ UNCHANGED <<config, blueprintPromise, lucidPromise, bundleReads, lucidBuilds,
                 started, log>>

\* the caller has the outcome; the slot is free for the next call
Collect(p) ==
  /\ calls[p].pc = "done"
  /\ calls' = [calls EXCEPT ![p] = IdleCall]
  /\ UNCHANGED <<config, blueprintPromise, lucidPromise, bundleReads, lucidBuilds,
                 utxos, accepted, started, log>>

(***************************************************************************)
(* Specification.                                                          *)
(***************************************************************************)
Request(ownerVkhHex, level, action) ==
  [ownerVkhHex |-> ownerVkhHex, level |-> level, action |-> action]

\* the requests callers send: the three actions at the levels 0..MaxLevel, a
\* level that does not fit in a byte, and an action that does not exist
Requests ==
  {Request(NoHint, l, a) : l \in 0..MaxLevel, a \in {"Init", "Upgrade", "Retire"}}
    \cup {Request(NoHint, MaxLevelByte + 1, "Retire"), Request(NoHint, 0, "Burn")}

\* a level-0 badge of the backend key, minted before the process started
GenesisBadge ==
  Utxo(0, unitOf(BackendKeyHash, 0), encodeBadgeDatum(BackendKeyHash, 0, policyId))

GoodSetup ==
  /\ env.CARDANO_SIGNING_KEY
  /\ bundleFile.readable
  /\ bundleFile.plutusVersion = "v3"
  /\ badgeMintPolicy.ok
  /\ badgeHolderValidator.ok

Env(projectId, signingKey) ==
  [BLOCKFROST_PROJECT_ID |-> projectId, CARDANO_SIGNING_KEY |-> signingKey]

GoodBundle == CHOOSE b \in BundleFiles :
  b.readable /\ b.plutusVersion = "v3" /\ Len(b.validators) = 2
    /\ \A i \in 1..2 : b.validators[i].compiledCode # <<>>

\* the process is set up well, or has one fault: a missing credential, a bad
\* bundle, or a provider out of reach
Setups ==
  {<<Env(TRUE, TRUE), b, TRUE>> : b \in BundleFiles}
    \cup {<<Env(FALSE, TRUE), GoodBundle, TRUE>>,
          <<Env(TRUE, FALSE), GoodBundle, TRUE>>,
          <<Env(TRUE, TRUE), GoodBundle, FALSE>>}

Init ==
  /\ \E s \in Setups : env = s[1] /\ bundleFile = s[2] /\ providerUp = s[3]
  /\ genesis \in (IF GoodSetup THEN {{}, {GenesisBadge}} ELSE {{}})
  /\ blueprintPromise = "null"
  /\ lucidPromise = "null"
  /\ bundleReads = 0
  /\ lucidBuilds = 0
  /\ utxos = genesis
  /\ accepted = {}
  /\ started = 0
  /\ log = {}
  /\ calls = [p \in CallIds |-> IdleCall]

Next ==
  \/ \E p \in CallIds, r \in Requests : Enter(p, r.ownerVkhHex, r.level, r.action)
  \/ BlueprintSettle
  \/ \E p \in CallIds : AfterBlueprint(p)
  \/ LucidSettle
  \/ \E p \in CallIds : AfterLucid(p)
  \/ \E p \in CallIds, ok \in BOOLEAN, found \in {None} \cup {Some(u) : u \in utxos} :
       LookupReturn(p, ok, found)
  \/ \E p \in CallIds, ok \in BOOLEAN : BuildReturn(p, ok)
  \/ \E p \in CallIds, ok \in BOOLEAN : SignReturn(p, ok)
  \/ \E p \in CallIds, ok \in BOOLEAN : SubmitReturn(p, ok)
  \/ \E p \in CallIds : Collect(p)

Spec == Init /\ [][Next]_vars

(***************************************************************************)
(* Two runs of one request from the same state, with two owner hints.      *)
(* Slot 1 holds the first run.  When it has ended, the process and the     *)
(* ledger are put back as they started, and slot 2 runs the same level     *)
(* and action with any hint, the provider answering as it did in the       *)
(* first run.                                                              *)
(***************************************************************************)
TwinRequests ==
  {Request(h, l, a) : h \in OwnerHints, l \in 0..MaxLevel, a \in {"Init", "Upgrade", "Retire"}}
    \cup {Request(h, MaxLevelByte + 1, "Retire") : h \in OwnerHints}

\* the provider's answer in the second run: as in the first
Again(kind) == ~FailedAt(calls[1], kind)

TwinReset ==
  /\ calls[1].pc = "done"
  /\ calls[2].pc = "idle"
  /\ started = 1
  /\ blueprintPromise' = "null"
  /\ lucidPromise' = "null"
  /\ bundleReads' = 0
  /\ lucidBuilds' = 0
  /\ utxos' = genesis
  /\ accepted' = {}
  /\ started' = 0
  /\ log' = {}
  /\ UNCHANGED <<config, calls>>

NextHint ==
  \/ \E r \in TwinRequests : Enter(1, r.ownerVkhHex, r.level, r.action)
  \/ BlueprintSettle
  \/ LucidSettle
  \/ AfterBlueprint(1)
  \/ AfterLucid(1)
  \/ \E ok \in BOOLEAN, found \in {None} \cup {Some(u) : u \in utxos} :
       LookupReturn(1, ok, found)
  \/ \E ok \in BOOLEAN : BuildReturn(1, ok)
  \/ \E ok \in BOOLEAN : SignReturn(1, ok)
  \/ \E ok \in BOOLEAN : SubmitReturn(1, ok)
  \/ TwinReset
  \/ \E h \in OwnerHints :
       calls[1].pc = "done" /\ started = 0 /\ Enter(2, h, calls[1].level, calls[1].action)
  \/ AfterBlueprint(2)
  \/ AfterLucid(2)
  \/ \E found \in {None} \cup {Some(u) : u \in utxos} :
       /\ calls[1].target # None => found = calls[1].target
       /\ LookupReturn(2, Again("lookup"), found)
  \/ BuildReturn(2, Again("build"))
  \/ SignReturn(2, Again("sign"))
  \/ SubmitReturn(2, Again("submit"))

SpecHint == Init /\ [][NextHint]_vars

(***************************************************************************)
(* Calls made one after the other: the caller awaits each call before it   *)
(* makes the next, in a process that is set up well.                       *)
(***************************************************************************)
SeqRequests ==
  {Request(NoHint, l, a) : l \in 0..MaxLevel, a \in {"Init", "Upgrade", "Retire"}}

InitSeq ==
  /\ Init
  /\ GoodSetup /\ env.BLOCKFROST_PROJECT_ID /\ providerUp

NextSeq ==
  \/ \E r \in SeqRequests :
       started < MaxSequential /\ Call(1, r.ownerVkhHex, r.level, r.action)
  \/ BlueprintSettle
  \/ AfterBlueprint(1)
  \/ LucidSettle
  \/ AfterLucid(1)
  \/ \E ok \in BOOLEAN, found \in {None} \cup {Some(u) : u \in utxos} :
       LookupReturn(1, ok, found)
  \/ \E ok \in BOOLEAN : BuildReturn(1, ok)
  \/ \E ok \in BOOLEAN : SignReturn(1, ok)
  \/ \E ok \in BOOLEAN : SubmitReturn(1, ok)
  \/ Collect(1)

SpecSeq == InitSeq /\ [][NextSeq]_vars

(***************************************************************************)
(* makeBadgeAssetName on its own: slot 1 holds the arguments of one         *)
(* application and the name returned or the error thrown.                  *)
(***************************************************************************)
\* owner arguments: two hashes in lower case, one in upper case with 0X, one
\* with blanks around it, one of 27 bytes, one that is not hex, and the empty
\* string
NameOwners ==
  { BackendKeyHash,
    OtherKeyHash,
    <<"0", "X">> \o Rep(<<"A", "1">>, OwnerBytes),
    <<" ">> \o OtherKeyHash \o <<" ">>,
    Rep(<<"a", "1">>, OwnerBytes - 1),
    <<"z", "z">> \o Rep(<<"a", "1">>, OwnerBytes - 1),
    <<>> }

\* level arguments: every level of one byte, and one below and one above
NameLevels == (0 - 1)..(MaxLevelByte + 1)

InitName ==
  /\ Init
  /\ GoodSetup /\ env.BLOCKFROST_PROJECT_ID /\ providerUp
  /\ genesis = {}

ApplyMakeBadgeAssetName(ownerVkhHex, level) ==
  LET c == [IdleCall EXCEPT !.ownerVkhHex = ownerVkhHex, !.level = level]
      assetNameHex == makeBadgeAssetName(ownerVkhHex, level)
  IN
  /\ calls[1].pc = "idle"
  /\ calls' = [calls EXCEPT ![1] =
       IF assetNameHex.ok THEN [c EXCEPT !.pc = "done", !.query = Some(assetNameHex.val)]
       ELSE Failed(c, assetNameHex.err)]
  /\ UNCHANGED <<config, blueprintPromise, lucidPromise, bundleReads, lucidBuilds,
                 utxos, accepted, started, log>>

NextName ==
  \/ \E o \in NameOwners, l \in NameLevels : ApplyMakeBadgeAssetName(o, l)
  \/ Collect(1)

SpecName == InitName /\ [][NextName]_vars

(***************************************************************************)
(* Properties.                                                             *)
(***************************************************************************)
Succeeds(c) == c.pc = "done" /\ c.result # None /\ c.error = None

\* the identifiers as the spec states them: the policy id is the hash of the
\* minting policy, the asset name is 0x59, the level byte and the owner hash
Hex2(n) == <<HexDigits[(n \div 16) + 1], HexDigits[(n % 16) + 1]>>

BadgePolicy == Rep(MintCode, OwnerBytes)

BadgeUnit(level) == BadgePolicy \o <<"5", "9">> \o Hex2(level) \o BackendKeyHash

HolderAddress == <<"a", "d", "d", "r", "_">> \o HolderCode

\* the process is configured, the bundle is good and the provider is in reach
SetupOk == GoodSetup /\ env.BLOCKFROST_PROJECT_ID /\ providerUp

Fails(c) == c.pc = "done" /\ c.result = None /\ c.error # None

C1_Calls ==
  \A p \in CallIds :
    LET c == calls[p] IN
    /\ c.submits <= 1
    /\ c.submits = 1 =>
         /\ c.tx # None /\ c.builds = 1 /\ c.signs = 1
         /\ ~FailedAt(c, "build") /\ ~FailedAt(c, "sign")
    /\ (FailedAt(c, "build") \/ FailedAt(c, "sign")) => Fails(c) /\ c.submits = 0
    /\ FailedAt(c, "submit") => Fails(c)
    /\ c.result # None => Succeeds(c) /\ c.submits = 1
    /\ c.pc = "done" => Succeeds(c) \/ Fails(c)

C1_LedgerStep ==
  accepted' # accepted =>
    \E p \in CallIds :
      /\ calls[p].pc = "awaitSubmit" /\ calls[p].submits = 1
      /\ Succeeds(calls'[p])
      /\ \E t \in accepted' : t.mint = calls[p].tx[1].mint /\ accepted' = accepted \cup {t}

\* C1: no partial submission. A call submits at most once, and only a built and
\* signed intent; a call whose build, sign or submit failed ends as a failure, with
\* nothing submitted when it was the build or the signature. The ledger changes
\* only in the step in which one submitted transaction is accepted whole.
C1_NoPartialSubmission == [](C1_Calls) /\ [][C1_LedgerStep]_vars

\* one call failed at the signature with nothing submitted, another succeeded
C1_Witness ==
  \E p, q \in CallIds :
    /\ FailedAt(calls[p], "sign") /\ calls[p].submits = 0
    /\ Succeeds(calls[q]) /\ calls[q].submits = 1

\* the level whose badge an Upgrade or a Retire spends
SpentLevel(c) == IF c.action = "Upgrade" THEN c.level - 1 ELSE c.level

C2_Step ==
  \A p \in CallIds :
    LET c == calls[p] d == calls'[p] IN
    ( /\ c.pc = "awaitLookup" /\ d.pc # "awaitLookup"
      /\ c.action \in {"Upgrade", "Retire"}
      /\ ~FailedAt(d, "lookup")
      /\ ~\E u \in utxos : HasUnit(u, BadgeUnit(SpentLevel(c))) )
    => /\ Fails(d) /\ FailedAt(d, "state")
       /\ d.error[1].num = SpentLevel(c) /\ d.error[1].text = HolderAddress
       /\ d.tx = None /\ d.builds = 0 /\ d.signs = 0 /\ d.submits = 0

C2_Calls ==
  \A p \in CallIds :
    LET c == calls[p] IN
    FailedAt(c, "state") =>
      /\ c.action \in {"Upgrade", "Retire"} /\ c.lookups = 1
      /\ c.error[1].num = SpentLevel(c) /\ c.error[1].text = HolderAddress
      /\ c.tx = None /\ c.builds = 0 /\ c.signs = 0 /\ c.submits = 0

\* C2: when the lookup of an Upgrade or a Retire answers with no output holding
\* the unit of the level to spend (level - 1 for Upgrade, level for Retire), the
\* call fails with the state error naming that level and the holder address, and
\* has built, signed and submitted nothing.
C2_EmptyLookupFails == [](C2_Calls) /\ [][C2_Step]_vars

\* an Upgrade to level 1 found no level-0 badge
C2_Witness ==
  \E p \in CallIds :
    /\ calls[p].action = "Upgrade" /\ calls[p].level = 1
    /\ FailedAt(calls[p], "state") /\ calls[p].lookups = 1

\* C3 as claimed: in a process that is set up well, an Upgrade with target level
\* 0 fails with the "Upgrade requires" precondition error, and the call has
\* started no ledger-client construction, no lookup, no signature, no submission.
C3_FailsBeforeIO ==
  \A p \in CallIds :
    LET c == calls[p] IN
    (SetupOk /\ c.pc = "done" /\ c.action = "Upgrade" /\ c.level = 0) =>
      /\ FailedAt(c, "precondition")
      /\ c.connects = 0 /\ c.lookups = 0 /\ c.signs = 0 /\ c.submits = 0

\* whether a call with these inputs gets as far as its lookup
ReachesLookup(c) ==
  /\ SetupOk
  /\ c.level \in 0..MaxLevelByte
  /\ \/ c.action = "Retire"
     \/ c.action = "Upgrade" /\ c.level >= 1

\* C4 as claimed: an Init performs no lookup, every Upgrade and every Retire
\* exactly one.
C4_ExactlyOneLookup ==
  \A p \in CallIds :
    LET c == calls[p] IN
    (SetupOk /\ c.pc = "done") =>
      /\ c.action = "Init" => c.lookups = 0
      /\ c.action \in {"Upgrade", "Retire"} => c.lookups = 1

\* C4, amended: an Init performs no lookup; an Upgrade or a Retire performs at most
\* one, and exactly one when the setup succeeded, the level fits in a byte and,
\* for an Upgrade, the target level is at least 1; otherwise none.
C4_LookupCount ==
  \A p \in CallIds :
    LET c == calls[p] IN
    /\ c.lookups <= 1
    /\ c.action \notin {"Upgrade", "Retire"} => c.lookups = 0
    /\ (c.pc = "done" /\ c.action \in {"Upgrade", "Retire"}) =>
         c.lookups = (IF ReachesLookup(c) THEN 1 ELSE 0)

\* an Upgrade to level 1 has made its one lookup, an Upgrade to level 0 none
C4_Witness ==
  \E p, q \in CallIds :
    /\ calls[p].pc = "done" /\ calls[p].action = "Upgrade" /\ calls[p].level = 1
    /\ calls[p].lookups = 1
    /\ calls[q].pc = "done" /\ calls[q].action = "Upgrade" /\ calls[q].level = 0
    /\ calls[q].lookups = 0 /\ FailedAt(calls[q], "precondition")

\* the redeemers and the datum as the contracts read them: the constructor
\* index, the number of fields, then the fields (a byte string with its length
\* in hex digits, an integer as it is)
OwnerField == <<"b", 2 * OwnerBytes>> \o BackendKeyHash

MintInit(level) == <<"constr", 0, 2>> \o OwnerField \o <<"i", level>>

MintUpgrade(fromLevel, toLevel) ==
  <<"constr", 1, 3>> \o OwnerField \o <<"i", fromLevel, "i", toLevel>>

MintRetire(level) == <<"constr", 2, 2>> \o OwnerField \o <<"i", level>>

HolderUpgrade(newLevel) == <<"constr", 0, 1, "i", newLevel>>

HolderRetire == <<"constr", 1, 0>>

BadgeDatum(level) ==
  <<"constr", 0, 3>> \o OwnerField \o <<"i", level>> \o <<"b", 2 * OwnerBytes>> \o BadgePolicy

\* the calls whose transaction intent has been composed
Built == {p \in CallIds : calls[p].tx # None}

\* C5: the mint map and the mint redeemer of every composed transaction match the
\* action. Init at level L: +1 of unit(owner, L), redeemer Init{owner, L}. Upgrade
\* to L: -1 of unit(owner, L-1) and +1 of unit(owner, L), redeemer Upgrade{owner,
\* L-1, L}. Retire at L: -1 of unit(owner, L), redeemer Retire{owner, L}. No other
\* unit is in the map, and the ledger records the same map for what it accepts.
C5_MintMatchesAction ==
  /\ \A p \in Built :
       LET c == calls[p]
           tx == c.tx[1]
           L == c.level
       IN
       /\ c.action \in {"Init", "Upgrade", "Retire"}
       /\ c.action = "Init" =>
            /\ tx.mint = {<<BadgeUnit(L), 1>>}
            /\ tx.mintRedeemer = Some(MintInit(L))
       /\ c.action = "Upgrade" =>
            /\ L >= 1
            /\ tx.mint = {<<BadgeUnit(L - 1), -1>>, <<BadgeUnit(L), 1>>}
            /\ tx.mintRedeemer = Some(MintUpgrade(L - 1, L))
       /\ c.action = "Retire" =>
            /\ tx.mint = {<<BadgeUnit(L), -1>>}
            /\ tx.mintRedeemer = Some(MintRetire(L))
  /\ \A t \in accepted :
       \E l \in 0..MaxLevelByte :
         t.mint \in { {<<BadgeUnit(l), 1>>}, {<<BadgeUnit(l), -1>>},
                      {<<BadgeUnit(l), -1>>, <<BadgeUnit(l + 1), 1>>} }

\* an Upgrade to level 1 and a Retire at level 0 have both composed their
\* transactions
C5_Witness ==
  \E p, q \in Built :
    /\ calls[p].action = "Upgrade" /\ calls[p].level = 1
    /\ calls[q].action = "Retire" /\ calls[q].level = 0

\* C6: a spent input and a holder redeemer are in a composed transaction only
\* for Upgrade and Retire. Init: no input, no holder redeemer, only the minting
\* policy attached. Upgrade to L: exactly the located output, which holds
\* unit(owner, L-1), with holder redeemer Upgrade(new_level = L). Retire at L:
\* exactly the located output, which holds unit(owner, L), with holder redeemer
\* Retire. Upgrade and Retire attach the minting policy and the spending validator.
C6_SpendMatchesAction ==
  \A p \in Built :
    LET c == calls[p]
        tx == c.tx[1]
        L == c.level
        policy == [kind |-> "MintingPolicy",
                   script |-> [type |-> "PlutusV3", script |-> MintCode]]
        validator == [kind |-> "SpendingValidator",
                      script |-> [type |-> "PlutusV3", script |-> HolderCode]]
    IN
    /\ c.action = "Init" =>
         /\ c.target = None /\ c.lookups = 0
         /\ tx.collect = {} /\ tx.spendRedeemer = None
         /\ tx.attach = {policy}
    /\ c.action = "Upgrade" =>
         /\ c.target # None /\ c.lookups = 1
         /\ tx.collect = {c.target[1]}
         /\ HasUnit(c.target[1], BadgeUnit(L - 1))
         /\ tx.spendRedeemer = Some(HolderUpgrade(L))
         /\ tx.attach = {policy, validator}
    /\ c.action = "Retire" =>
         /\ c.target # None /\ c.lookups = 1
         /\ tx.collect = {c.target[1]}
         /\ HasUnit(c.target[1], BadgeUnit(L))
         /\ tx.spendRedeemer = Some(HolderRetire)
         /\ tx.attach = {policy, validator}

\* an Init, and a Retire of the badge that Init locked, have both composed their
\* transactions
C6_Witness ==
  \E p, q \in Built :
    /\ calls[p].action = "Init" /\ Succeeds(calls[p])
    /\ calls[q].action = "Retire"
    /\ calls[q].target[1].ref = calls[p].result[1]

\* the value of a hex digit, and the level byte of the asset name in a unit (the
\* policy id, then 59, then the level)
HexVal(ch) == (CHOOSE i \in 1..16 : HexDigits[i] = ch) - 1

UnitLevel(unit) ==
  16 * HexVal(unit[2 * OwnerBytes + 3]) + HexVal(unit[2 * OwnerBytes + 4])

\* the level field of a BadgeDatum
DatumLevel(datum) == datum[2 * OwnerBytes + 7]

\* the output a badge of this level is locked in
Locked(ref, level) ==
  [ref |-> ref, assets |-> {<<Lovelace, ReserveLovelace>>, <<BadgeUnit(level), 1>>},
   datum |-> BadgeDatum(level)]

C7_Pays ==
  \A p \in Built :
    LET c == calls[p]
        tx == c.tx[1]
    IN
    /\ c.action \in {"Init", "Upgrade"} =>
         /\ Len(tx.pay) = 1
         /\ tx.pay[1].address = HolderAddress
         /\ tx.pay[1].assets = {<<Lovelace, ReserveLovelace>>, <<BadgeUnit(c.level), 1>>}
         /\ tx.pay[1].datum = BadgeDatum(c.level)
         /\ DatumLevel(tx.pay[1].datum) = UnitLevel(BadgeUnit(c.level))
    /\ c.action = "Retire" => tx.pay = <<>>

C7_Live ==
  \A u \in utxos :
    \E l \in 0..MaxLevelByte :
      /\ u.assets = {<<Lovelace, ReserveLovelace>>, <<BadgeUnit(l), 1>>}
      /\ u.datum = BadgeDatum(l)
      /\ DatumLevel(u.datum) = l /\ UnitLevel(BadgeUnit(l)) = l

C7_Step ==
  \A p \in CallIds :
    LET c == calls[p] d == calls'[p] IN
    (c.pc = "awaitSubmit" /\ Succeeds(d)) =>
      /\ c.action \in {"Init", "Upgrade"} =>
           utxos' \ utxos = {Locked(d.result[1], c.level)}
      /\ c.action = "Retire" => utxos' \ utxos = {}

\* C7: a successful Init at level L and a successful Upgrade to level L each create
\* exactly one output at the holder-script address, locking 1 token of unit(owner,
\* L) and the reserve lovelace under the inline datum BadgeDatum(owner, L,
\* policyId), whose level is the level in the token's asset name; a Retire creates
\* no output at the script.
C7_OutputsPerAction == [](C7_Pays /\ C7_Live) /\ [][C7_Step]_vars

\* an Init at level 0 succeeded, an Upgrade to level 1 spent the output it made
\* and succeeded, and the level-1 badge is the one live output
C7_Witness ==
  \E p, q \in CallIds :
    /\ calls[p].action = "Init" /\ calls[p].level = 0 /\ Succeeds(calls[p])
    /\ calls[q].action = "Upgrade" /\ calls[q].level = 1 /\ Succeeds(calls[q])
    /\ calls[q].target[1].ref = calls[p].result[1]
    /\ utxos = {Locked(calls[q].result[1], 1)}

\* the owner a composed transaction names: in its required signers, in the asset
\* names of its mint map and of what it locks, in its datum and in its mint redeemer
OwnersIn(tx) ==
  tx.signers
    \cup {SubSeq(a[1], 2 * OwnerBytes + 5, Len(a[1])) : a \in tx.mint}
    \cup {SubSeq(a[1], 2 * OwnerBytes + 5, Len(a[1])) :
            a \in {b \in UNION {tx.pay[i].assets : i \in 1..Len(tx.pay)} : b[1] # Lovelace}}
    \cup {SubSeq(tx.pay[i].datum, 6, 2 * OwnerBytes + 5) : i \in 1..Len(tx.pay)}
    \cup {SubSeq(tx.mintRedeemer[1], 6, 2 * OwnerBytes + 5)}

C8_Owner ==
  \A p \in CallIds :
    LET c == calls[p] IN
    /\ c.tx # None => OwnersIn(c.tx[1]) = {BackendKeyHash}
    /\ c.query # None =>
         SubSeq(c.query[1], 2 * OwnerBytes + 5, Len(c.query[1])) = BackendKeyHash
    /\ Succeeds(c) => ResultOf(c).ownerVkhHex = BackendKeyHash

C8_Twins ==
  (calls[1].pc = "done" /\ calls[2].pc = "done") =>
    /\ calls[1].level = calls[2].level /\ calls[1].action = calls[2].action
    /\ Succeeds(calls[1]) <=> Succeeds(calls[2])
    /\ calls[1].error = calls[2].error
    /\ calls[1].result = calls[2].result
    /\ calls[1].tx = calls[2].tx
    /\ calls[1].target = calls[2].target
    /\ Succeeds(calls[1]) =>
         ResultOf([calls[1] EXCEPT !.ownerVkhHex = NoHint])
           = ResultOf([calls[2] EXCEPT !.ownerVkhHex = NoHint])

\* C8: the owner hint never influences the outcome. Two calls that start from the
\* same state with the same level and action, and any two owner hints (absent, the
\* derived hash, another well-formed hash, a malformed one), end alike: both
\* succeed or both fail with the same error, with the same transaction and the
\* same object returned; and the owner in the asset names, the datum, the mint
\* redeemer, the required signer and the returned ownerVkhHex is always the hash
\* derived from the custodial signing key.
C8_HintIndependence == C8_Owner /\ C8_Twins

\* an Upgrade ran twice from the same state, once with no hint and once with
\* another well-formed hash as the hint, and succeeded both times
C8_Witness ==
  /\ Succeeds(calls[1]) /\ Succeeds(calls[2])
  /\ calls[1].action = "Upgrade" /\ calls[2].action = "Upgrade"
  /\ calls[1].ownerVkhHex = NoHint /\ calls[2].ownerVkhHex = OtherKeyHash
  /\ \E w \in log : w.ownerVkhHex = OtherKeyHash

C9_Once ==
  /\ bundleReads = (IF blueprintPromise = "null" THEN 0 ELSE 1)
  /\ lucidBuilds = (IF lucidPromise = "null" THEN 0 ELSE 1)
  /\ \A p, q \in CallIds :
       p # q => /\ calls[p].reads + calls[q].reads <= 1
                /\ calls[p].connects + calls[q].connects <= 1
  /\ \A p \in CallIds :
       /\ calls[p].pc = "awaitBlueprint" => blueprintPromise # "null"
       /\ calls[p].pc = "awaitLucid" => lucidPromise # "null"

C9_Step ==
  /\ bundleReads' # bundleReads =>
       blueprintPromise = "null" /\ blueprintPromise' = "pending"
  /\ lucidBuilds' # lucidBuilds =>
       lucidPromise = "null" /\ lucidPromise' = "pending"
  /\ blueprintPromise # "null" => blueprintPromise' # "null"
  /\ lucidPromise # "null" => lucidPromise' # "null"
  /\ blueprintPromise \in {"fulfilled", "rejected"} => blueprintPromise' = blueprintPromise
  /\ lucidPromise \in {"fulfilled", "rejected"} => lucidPromise' = lucidPromise
  /\ \A p \in CallIds :
       /\ (calls[p].pc = "awaitBlueprint" /\ calls'[p].pc # "awaitBlueprint") =>
            (FailedAt(calls'[p], "resolution")
               /\ calls'[p].error[1].msg = "bundle unreadable")
              <=> blueprintPromise = "rejected"
       /\ (calls[p].pc = "awaitLucid" /\ calls'[p].pc # "awaitLucid") =>
            FailedAt(calls'[p], "connect") <=> lucidPromise = "rejected"

\* C9: under any interleaving of mintBadge calls the bundle is read at most once and
\* the ledger client is constructed at most once. Only the call that finds the
\* promise unset starts the initialization; a call that arrives while it is in
\* flight or after it has settled starts nothing and gets the outcome of that one
\* initialization, which does not change once settled.
C9_SingleInitialization == [](C9_Once) /\ [][C9_Step]_vars

\* two calls are past both initializations; one of them started the read and the
\* construction, the other started neither
C9_Witness ==
  \E p, q \in CallIds :
    /\ calls[p].reads = 1 /\ calls[p].connects = 1
    /\ calls[q].reads = 0 /\ calls[q].connects = 0
    /\ calls[p].pc \notin {"idle", "awaitBlueprint", "awaitLucid"}
    /\ calls[q].pc \notin {"idle", "awaitBlueprint", "awaitLucid"}
    /\ calls[p].error = None /\ calls[q].error = None
    /\ bundleReads = 1 /\ lucidBuilds = 1

\* the accepted transactions that burn a unit, and those that mint it
Burns(unit) == {t \in accepted : <<unit, -1>> \in t.mint}

Mints(unit) == {t \in accepted : <<unit, 1>> \in t.mint}

\* two calls in flight or ended that located the same output
SameTarget(p, q) ==
  /\ p # q
  /\ calls[p].target # None
  /\ calls[p].target = calls[q].target

C10_AtMostOneSpend ==
  /\ \A t1, t2 \in accepted : t1 # t2 => t1.inputs \cap t2.inputs = {}
  /\ \A p, q \in CallIds :
       SameTarget(p, q) =>
         /\ ~(Succeeds(calls[p]) /\ Succeeds(calls[q]))
         /\ (Succeeds(calls[p]) /\ calls[q].pc = "done") => Fails(calls[q])
         /\ (Succeeds(calls[p]) /\ calls[q].pc = "done" /\ calls[q].submits = 1) =>
              FailedAt(calls[q], "submit")
  /\ \A l \in 0..MaxLevel :
       Cardinality(Burns(BadgeUnit(l)))
         <= Cardinality(Mints(BadgeUnit(l))) + QtyIn(genesis, BadgeUnit(l))

C10_Step ==
  \A p, q \in CallIds :
    (SameTarget(p, q) /\ Succeeds(calls[p]) /\ calls[q].pc = "awaitSubmit"
       /\ calls'[q].pc = "done") =>
      /\ FailedAt(calls'[q], "submit")
      /\ UNCHANGED <<utxos, accepted>>

\* C10: two Upgrade and/or Retire calls spending the badge of the same owner and
\* level are not kept apart: both may locate the same output and both may submit.
\* The ledger accepts at most one transaction spending an output; once one call
\* has succeeded, the other's submission fails and the call ends as a submission
\* failure with the ledger unchanged; no badge is burned more often than it exists.
C10_DoubleSpendRejected == [](C10_AtMostOneSpend) /\ [][C10_Step]_vars

\* an Upgrade and a Retire located the same level-0 output and both submitted;
\* one succeeded, the other failed at the submission
C10_Witness ==
  \E p, q \in CallIds :
    /\ SameTarget(p, q)
    /\ calls[p].action = "Upgrade" /\ calls[q].action = "Retire"
    /\ calls[p].submits = 1 /\ calls[q].submits = 1
    /\ Succeeds(calls[p]) /\ FailedAt(calls[q], "submit")
    /\ Cardinality(accepted) = 1

\* the live outputs at the holder script that hold a unit
LiveWith(unit) == {u \in utxos : HasUnit(u, unit)}

\* C11 as claimed: in every reachable state at most one live output at the
\* holder-script address holds the badge unit of a given owner and level.
C11_AtMostOneLive ==
  \A l \in 0..MaxLevelByte : Cardinality(LiveWith(BadgeUnit(l))) <= 1

\* C12 as claimed: when the signing key or the ledger-access credential is not
\* configured, the call fails with a configuration error before any work: the
\* bundle has not been read, and the call has made no lookup, signature or
\* submission.
C12_EagerConfigError ==
  \A p \in CallIds :
    LET c == calls[p] IN
    (c.pc = "done" /\ (~env.BLOCKFROST_PROJECT_ID \/ ~env.CARDANO_SIGNING_KEY)) =>
      /\ FailedAt(c, "config")
      /\ c.reads = 0 /\ bundleReads = 0 /\ blueprintPromise = "null"
      /\ c.connects = 0 /\ c.lookups = 0 /\ c.signs = 0 /\ c.submits = 0

\* the accepted transaction with this hash, and what it mints (or burns, below 0)
\* of a unit
TxAt(h) == CHOOSE t \in accepted : t.txHash = h

MintQty(t, unit) ==
  LET here == {a \in t.mint : a[1] = unit} IN
  IF here = {} THEN 0 ELSE (CHOOSE a \in here : TRUE)[2]

\* the live outputs holding a unit after the first h accepted transactions
RECURSIVE NetAfter(_, _)
NetAfter(unit, h) ==
  IF h = 0 THEN QtyIn(genesis, unit)
  ELSE NetAfter(unit, h - 1) + MintQty(TxAt(h), unit)

\* the accepted transactions after the first h and before t
Between(h, t) == {s \in accepted : h < s.txHash /\ s.txHash < t.txHash}

\* an accepted Upgrade or Retire that spent the badge of a level
Consumes(t, level) == <<BadgeUnit(level), -1>> \in t.mint

\* C13 as claimed: when no badge of level L is live (none was ever minted, or an
\* accepted Upgrade or Retire spent the single live one), every later Upgrade to
\* L+1 and Retire at L fails until a new Init at level L succeeds: whenever one is
\* accepted, an Init at L was accepted in between.
C13_OnlyInitRevives ==
  \A l \in 0..MaxLevel : \A t \in accepted :
    Consumes(t, l) =>
      \A h \in 0..(t.txHash - 1) :
        NetAfter(BadgeUnit(l), h) = 0 =>
          \E s \in Between(h, t) : s.mint = {<<BadgeUnit(l), 1>>}

C13_History ==
  \A l \in 0..MaxLevel : \A t \in accepted :
    Consumes(t, l) =>
      \A h \in 0..(t.txHash - 1) :
        NetAfter(BadgeUnit(l), h) = 0 =>
          \E s \in Between(h, t) : <<BadgeUnit(l), 1>> \in s.mint

\* the call, made when no live output held the unit to spend, got an answer to
\* its lookup
LookedUpNothing(c) ==
  /\ c.action \in {"Upgrade", "Retire"}
  /\ c.lookups = 1 /\ c.pc # "awaitLookup" /\ ~FailedAt(c, "lookup")
  /\ ~Succeeds(c)
  /\ LiveWith(BadgeUnit(SpentLevel(c))) = {}

C13_Calls ==
  LET c == calls[1] IN
  /\ LookedUpNothing(c) =>
       /\ Fails(c) /\ FailedAt(c, "state")
       /\ c.error[1].msg = "No badge-holder UTxO found for level"
       /\ c.error[1].num = SpentLevel(c)
       /\ c.tx = None /\ c.submits = 0
  /\ c.tx # None /\ c.action \in {"Upgrade", "Retire"} /\ ~Succeeds(c) =>
       LiveWith(BadgeUnit(SpentLevel(c))) # {}

\* C13, amended: with calls made one after the other, while no badge of level L
\* is live (none was minted, or the live one was spent by an accepted Upgrade or
\* Retire), every Upgrade to L+1 and Retire at L whose lookup answers fails with
\* the "No badge-holder UTxO found" state error and composes no transaction, until
\* a transaction that mints the level-L unit is accepted: an Init at L or an
\* Upgrade to L.
C13_ConsumedStaysConsumed == C13_History /\ C13_Calls

\* the genesis badge was retired, and a later Retire at level 0 found nothing and
\* failed with the state error
C13_Witness ==
  /\ genesis = {GenesisBadge}
  /\ \E t \in accepted : Consumes(t, 0) /\ t.mint = {<<BadgeUnit(0), -1>>}
  /\ calls[1].action = "Retire" /\ calls[1].level = 0
  /\ FailedAt(calls[1], "state") /\ LiveWith(BadgeUnit(0)) = {}

\* an owner hint is well formed: 56 hex digits once trimmed, stripped of 0x and
\* put in lower case
WellFormed(hint) ==
  LET h == normalizeHex(hint) IN
  Len(h) = 2 * OwnerBytes /\ \A i \in 1..Len(h) : h[i] \in LowerHexChars

\* C14 as claimed: the only condition that is logged as a warning and not
\* surfaced is a well-formed owner hint that differs from the derived hash; a
\* malformed owner hint is a validation error and fails the call.
C14_OnlyMismatchSwallowed ==
  /\ \A w \in log : WellFormed(w.ownerVkhHex)
  /\ \A p \in CallIds :
       LET c == calls[p] IN
       (c.pc = "done" /\ c.ownerVkhHex # NoHint /\ ~WellFormed(c.ownerVkhHex)) =>
         Fails(c)

\* the call the log is about (the log is empty before a run starts): the second
\* run once it has started
Current == IF calls[2].pc # "idle" THEN 2 ELSE 1

\* the error a call ends with, by the fault that is there
C14_Surfaced(c) ==
  /\ Succeeds(c) \/ Fails(c)
  /\ Succeeds(c) => c.builds = 1 /\ c.signs = 1 /\ c.submits = 1
  /\ ~env.CARDANO_SIGNING_KEY => FailedAt(c, "config")
  /\ ~env.BLOCKFROST_PROJECT_ID =>
       FailedAt(c, "config") /\ c.error[1].msg = "BLOCKFROST_PROJECT_ID is not configured"
  /\ (~bundleFile.readable \/ bundleFile.plutusVersion # "v3"
        \/ Len(bundleFile.validators) # 2
        \/ \E i \in 1..Len(bundleFile.validators) :
             bundleFile.validators[i].compiledCode = <<>>)
       => FailedAt(c, "resolution")
  /\ ~providerUp => FailedAt(c, "connect")
  /\ (SetupOk /\ c.level > MaxLevelByte) =>
       FailedAt(c, "validation") /\ c.error[1].num = c.level
  /\ FailedAt(c, "validation") => c.level > MaxLevelByte
  /\ (SetupOk /\ c.level <= MaxLevelByte /\ Fails(c)) =>
       c.error[1].kind \in {"precondition", "lookup", "state", "build", "sign", "submit"}

C14_Log ==
  LET c == calls[Current]
      h == c.ownerVkhHex
  IN
  IF started = 0 \/ ~env.CARDANO_SIGNING_KEY THEN log = {}
  ELSE IF h = NoHint THEN log = {}
  ELSE IF ~WellFormed(h)
  THEN log = {[msg |-> "Invalid ownerVkhHex provided; using server signing key",
               ownerVkhHex |-> h]}
  ELSE IF normalizeHex(h) # BackendKeyHash
  THEN log = {[msg |-> "Ignoring provided ownerVkhHex; using server signing key",
               ownerVkhHex |-> normalizeHex(h)]}
  ELSE log = {}

\* C14, amended: every configuration, resolution, connection, validation,
\* precondition, lookup, state, build, signature and submission error raised in
\* a call ends the call as a failure with that error; a call succeeds only after
\* its build, signature and submission. Two conditions are logged as a warning
\* and not surfaced, both about the owner hint: a well-formed hint that differs
\* from the derived hash, and a malformed hint, whose validation error is caught
\* and logged. A validation error of the level is always surfaced.
C14_ErrorsSurfaced ==
  /\ \A p \in CallIds : calls[p].pc = "done" => C14_Surfaced(calls[p])
  /\ C14_Log

\* a call with a malformed owner hint succeeded, with the warning logged
C14_Witness ==
  /\ calls[2].ownerVkhHex = <<"z", "z">> /\ Succeeds(calls[2])
  /\ log = {[msg |-> "Invalid ownerVkhHex provided; using server signing key",
             ownerVkhHex |-> <<"z", "z">>]}

\* C15: a call whose action is not Init, Upgrade or Retire fails; it makes no
\* holder-output lookup, composes no transaction, and makes no signature or
\* submission call. In a process that is set up well it fails with the
\* "Unsupported action" error naming the action.
C15_UnsupportedActionFails ==
  \A p \in CallIds :
    LET c == calls[p] IN
    (c.pc # "idle" /\ c.action \notin {"Init", "Upgrade", "Retire"}) =>
      /\ c.lookups = 0 /\ c.query = None /\ c.target = None
      /\ c.tx = None /\ c.builds = 0 /\ c.signs = 0 /\ c.submits = 0
      /\ c.result = None
      /\ c.pc \in {"awaitBlueprint", "awaitLucid", "done"}
      /\ c.pc = "done" => Fails(c)
      /\ (c.pc = "done" /\ SetupOk) =>
           /\ FailedAt(c, "validation")
           /\ c.error[1].msg = "Unsupported action"
           /\ c.error[1].text = <<c.action>>

\* a call with the action Burn got as far as the dispatch and failed there
C15_Witness ==
  \E p \in CallIds :
    /\ calls[p].action = "Burn" /\ calls[p].pc = "done"
    /\ calls[p].connects = 1
    /\ FailedAt(calls[p], "validation") /\ calls[p].error[1].msg = "Unsupported action"

\* the bundle was read and parsed, and its preamble names another version
WrongVersion == bundleFile.readable /\ bundleFile.plutusVersion # "v3"

\* C16: on every call, also one served from the cached bundle, a bundle whose
\* preamble version is not "v3" fails the call with the "Expected Plutus V3
\* blueprint" resolution error naming the version found, before any script is
\* resolved (the error is the same with the scripts missing); no ledger client
\* is initialized, and the call makes no lookup, signature or submission.
C16_VersionChecked ==
  (WrongVersion /\ env.CARDANO_SIGNING_KEY) =>
    /\ lucidPromise = "null" /\ lucidBuilds = 0
    /\ \A p \in CallIds :
         LET c == calls[p] IN
         /\ c.pc \in {"idle", "awaitBlueprint", "done"}
         /\ c.connects = 0 /\ c.lookups = 0 /\ c.builds = 0
         /\ c.signs = 0 /\ c.submits = 0
         /\ c.pc = "done" =>
              /\ Fails(c) /\ FailedAt(c, "resolution")
              /\ c.error[1].msg = "Expected Plutus V3 blueprint"
              /\ c.error[1].text = <<bundleFile.plutusVersion>>

\* two calls failed on the version of a bundle without validators; one of them
\* was served from the cache
C16_Witness ==
  \E p, q \in CallIds :
    /\ WrongVersion /\ bundleFile.validators = <<>>
    /\ calls[p].reads = 1 /\ calls[q].reads = 0
    /\ FailedAt(calls[p], "resolution") /\ FailedAt(calls[q], "resolution")
    /\ calls[q].error[1].msg = "Expected Plutus V3 blueprint"

\* a name split back into its tag, its level and its owner
SplitName(name) ==
  [tag |-> SubSeq(name, 1, 2),
   level |-> 16 * HexVal(name[3]) + HexVal(name[4]),
   owner |-> SubSeq(name, 5, Len(name))]

\* the arguments makeBadgeAssetName accepts
ValidName(ownerVkhHex, level) == WellFormed(ownerVkhHex) /\ level \in 0..MaxLevelByte

\* the owner arguments that are well formed, the hash each of them spells, and
\* the name of each of them at each level
ValidOwners == {o \in NameOwners : WellFormed(o)}

NormalOwner == [o \in ValidOwners |-> normalizeHex(o)]

NameOf == [o \in ValidOwners |-> [l \in 0..MaxLevelByte |-> makeBadgeAssetName(o, l).val]]

\* C17: for every well-formed 28-byte owner hash and every level 0..255 the name
\* is 30 bytes (60 hex digits): the tag 59, the level byte, the owner hash in
\* lower case; splitting it gives back the level and the owner; two applications
\* give the same name only for the same level and the same owner hash; the names
\* of level - 1 and level differ. Other arguments are refused with an error.
C17_NameInjective ==
  LET c == calls[1] IN
  c.pc = "done" =>
    IF ValidName(c.ownerVkhHex, c.level)
    THEN /\ c.query # None /\ c.error = None
         /\ LET name == c.query[1] IN
            /\ Len(name) = 2 * (OwnerBytes + 2)
            /\ \A i \in 1..Len(name) : name[i] \in LowerHexChars
            /\ SplitName(name).tag = <<"5", "9">>
            /\ SplitName(name).level = c.level
            /\ SplitName(name).owner = normalizeHex(c.ownerVkhHex)
            /\ \A o \in ValidOwners, l \in 0..MaxLevelByte :
                 NameOf[o][l] = name =>
                   l = c.level /\ NormalOwner[o] = NormalOwner[c.ownerVkhHex]
            /\ c.level >= 1 =>
                 makeBadgeAssetName(c.ownerVkhHex, c.level - 1).val # name
    ELSE c.query = None /\ FailedAt(c, "validation")

\* the name of level 10 of the hash given in upper case with 0X: 59, 0a, and the
\* hash in lower case
C17_Witness ==
  /\ calls[1].pc = "done" /\ calls[1].level = 10
  /\ calls[1].ownerVkhHex = <<"0", "X">> \o Rep(<<"A", "1">>, OwnerBytes)
  /\ calls[1].query = Some(<<"5", "9", "0", "a">> \o BackendKeyHash)

\* C18: token conservation. Every live holder output holds exactly one badge
\* token, and for each badge unit what was live at the start plus what the
\* accepted transactions minted less what they burned is the number of live
\* holder outputs holding the unit; it is never negative, also after each
\* accepted transaction taken alone.
C18_TokenConservation ==
  /\ \A u \in utxos :
       Cardinality({a \in u.assets : a[1] # Lovelace}) = 1
         /\ \A a \in u.assets : a[1] # Lovelace => a[2] = 1
  /\ \A l \in 0..(MaxLevel + 1) :
       /\ NetAfter(BadgeUnit(l), Cardinality(accepted))
            = Cardinality(LiveWith(BadgeUnit(l)))
       /\ QtyIn(utxos, BadgeUnit(l)) = Cardinality(LiveWith(BadgeUnit(l)))
       /\ \A h \in 0..Cardinality(accepted) : NetAfter(BadgeUnit(l), h) >= 0

\* from an empty ledger an Init at level 0 and an Upgrade to level 1 were
\* accepted: one level-1 token is live and no level-0 token
C18_Witness ==
  /\ genesis = {} /\ Cardinality(accepted) = 2
  /\ \E t \in accepted : t.mint = {<<BadgeUnit(0), -1>>, <<BadgeUnit(1), 1>>}
  /\ Cardinality(LiveWith(BadgeUnit(1))) = 1 /\ LiveWith(BadgeUnit(0)) = {}

C19_Cached ==
  /\ blueprintPromise = "rejected" =>
       /\ bundleReads = 1 /\ lucidPromise = "null" /\ lucidBuilds = 0
       /\ \A p \in CallIds :
            LET c == calls[p] IN
            /\ c.pc \in {"idle", "awaitBlueprint", "done"}
            /\ c.pc = "done" =>
                 /\ Fails(c) /\ FailedAt(c, "resolution")
                 /\ c.error[1].msg = "bundle unreadable"
  /\ lucidPromise = "rejected" =>
       /\ lucidBuilds = 1
       /\ \A p \in CallIds :
            LET c == calls[p] IN
            /\ c.pc \in {"idle", "awaitBlueprint", "awaitLucid", "done"}
            /\ c.pc = "done" => Fails(c) /\ FailedAt(c, "connect")
  /\ \A p \in CallIds :
       LET c == calls[p] IN
       (FailedAt(c, "config") /\ c.error[1].msg = "BLOCKFROST_PROJECT_ID is not configured")
         => lucidPromise = "null" /\ lucidBuilds = 0 /\ c.connects = 0

C19_Step ==
  /\ blueprintPromise = "rejected" =>
       blueprintPromise' = "rejected" /\ bundleReads' = bundleReads
  /\ lucidPromise = "rejected" =>
       lucidPromise' = "rejected" /\ lucidBuilds' = lucidBuilds
  /\ \A p \in CallIds :
       /\ (blueprintPromise = "rejected" /\ calls[p].pc = "idle" /\ calls'[p].pc # "idle") =>
            calls'[p].pc = "awaitBlueprint" /\ calls'[p].reads = 0
       /\ (lucidPromise = "rejected" /\ calls[p].pc = "awaitBlueprint"
             /\ calls'[p].pc # "awaitBlueprint") =>
            calls'[p].pc = "awaitLucid" /\ calls'[p].connects = 0

\* C19: a rejected bundle load and a rejected ledger-client construction stay in
\* their caches: the promise stays rejected, no later call starts a new load or
\* construction, and every call ends with that rejection. When assertBlockchainEnv
\* throws for a missing credential, the ledger-client cache stays empty and nothing
\* was constructed.
C19_FailedInitCached == [](C19_Cached) /\ [][C19_Step]_vars

\* the construction of the ledger client was rejected; the call that started it
\* and a call that did not both failed with the rejection
C19_Witness ==
  \E p, q \in CallIds :
    /\ lucidPromise = "rejected" /\ lucidBuilds = 1
    /\ calls[p].connects = 1 /\ FailedAt(calls[p], "connect")
    /\ calls[q].connects = 0 /\ calls[q].reads = 0 /\ FailedAt(calls[q], "connect")

\* the titles of the bundle's entries that have compiled code
Compiled ==
  {bundleFile.validators[i].title :
     i \in {j \in 1..Len(bundleFile.validators) :
              bundleFile.validators[j].compiledCode # <<>>}}

\* the first of the two named scripts that cannot be resolved
Unresolved == IF MintTitle \notin Compiled THEN MintTitle ELSE HolderTitle

\* C20: every call resolves both named scripts before it dispatches on the
\* action. With a readable v3 bundle in which the minting policy or the holder
\* validator is absent or has no compiled code, every call, whatever its action,
\* fails with the "Compiled script not found" error naming the script; no ledger
\* client is initialized and the call makes no lookup, signature or submission.
C20_ScriptsResolvedFirst ==
  ( /\ env.CARDANO_SIGNING_KEY
    /\ bundleFile.readable /\ bundleFile.plutusVersion = "v3"
    /\ ~({MintTitle, HolderTitle} \subseteq Compiled) ) =>
    /\ lucidPromise = "null" /\ lucidBuilds = 0
    /\ \A p \in CallIds :
         LET c == calls[p] IN
         /\ c.pc \in {"idle", "awaitBlueprint", "done"}
         /\ c.connects = 0 /\ c.lookups = 0 /\ c.builds = 0
         /\ c.signs = 0 /\ c.submits = 0 /\ c.tx = None
         /\ c.pc = "done" =>
              /\ Fails(c) /\ FailedAt(c, "resolution")
              /\ c.error[1].msg = "Compiled script not found"
              /\ c.error[1].text = Unresolved

\* with the holder validator absent from the bundle, an Init and a Retire both
\* failed with the error naming it
C20_Witness ==
  \E p, q \in CallIds :
    /\ HolderTitle \notin Compiled /\ MintTitle \in Compiled
    /\ calls[p].action = "Init" /\ calls[q].action = "Retire"
    /\ FailedAt(calls[p], "resolution") /\ calls[p].error[1].text = HolderTitle
    /\ FailedAt(calls[q], "resolution") /\ calls[q].error[1].text = HolderTitle

=============================================================================
